---- MODULE Spec2Model ----
(***************************************************************************)
(* Model of the HTTP ping utility (src/main.py): argument validation, the  *)
(* concurrent batch of ping_host probes joined by asyncio.gather, the fold *)
(* of the results into per-host statistics and the rendering of the report.*)
(*                                                                         *)
(* Representation choices:                                                 *)
(*  - args.hosts is kept as the sequence of its comma-separated pieces, so  *)
(*    str.split(',') is the sequence itself; str.strip and urlparse are     *)
(*    tables over the finite set of pieces RawTokens.                       *)
(*  - time.monotonic() is an integer clock `now`; the 10 s request timeout  *)
(*    is MaxDur ticks, so durations are in 1..MaxDur; the mean printed by   *)
(*    the report is kept as the exact pair <<sum, n>>.                      *)
(*  - dicts (stats) are insertion-ordered, modelled as sequences of entries.*)
(***************************************************************************)
EXTENDS Integers, Sequences, FiniteSets, TLC

\* ------------------------------------------------------------------ bounds
MaxHosts == 2      \* pieces in --hosts
MaxCount == 2      \* largest --count tried
MaxProbes == 2     \* inputs are drawn with at most MaxProbes requests to issue
MaxDur == 2        \* clock ticks until the request timeout fires
MinCount == 1      \* counts are drawn from -MinCount .. MaxCount

\* ----------------------------------------------------------- input domain
RawTokens ==
    {"", "https://a.test", " https://b.test", "not-a-url", "http://", "http://[bad"}

Statuses == {200, 399, 400, 500}

\* attempts counts the calls of session.get made by the coroutine
NoTask == [url |-> "", state |-> "created", start |-> 0, attempts |-> 0, cause |-> "none",
           httpStatus |-> 0, returnedUrl |-> "", result |-> "none", duration |-> 0]

VARIABLES args, pc, hosts, session, tasks, results, stats, foldIdx, renderIdx,
          stdout, stderr, exitCode, validated, now

vars == <<args, pc, hosts, session, tasks, results, stats, foldIdx, renderIdx,
          stdout, stderr, exitCode, validated, now>>

\* ------------------------------------------------------- pure helpers
\* str.strip() on a piece of --hosts
Strip(s) ==
    CASE s = " https://b.test" -> "https://b.test"
      [] OTHER -> s

\* urllib.parse.urlparse: scheme and netloc, or ValueError (ok = FALSE)
Urlparse(s) ==
    CASE s = "https://a.test" -> [ok |-> TRUE, scheme |-> "https", netloc |-> "a.test"]
      [] s = "https://b.test" -> [ok |-> TRUE, scheme |-> "https", netloc |-> "b.test"]
      [] s = "http://" -> [ok |-> TRUE, scheme |-> "http", netloc |-> ""]
      [] s = "http://[bad" -> [ok |-> FALSE, scheme |-> "", netloc |-> ""]
      [] OTHER -> [ok |-> TRUE, scheme |-> "", netloc |-> ""]

\* raw_hosts = [host.strip() for host in args.hosts.split(',')]
RawHosts(pieces) == [i \in 1..Len(pieces) |-> Strip(pieces[i])]

\* the test of validate_urls' loop body for one non-empty host
IsValidUrl(h) ==
    LET p == Urlparse(h) IN p.ok /\ p.scheme # "" /\ p.netloc # ""

\* valid_hosts / invalid_hosts as built by the loop of validate_urls
RECURSIVE ValidHosts(_)
ValidHosts(raw) ==
    IF raw = <<>> THEN <<>>
    ELSE LET h == Head(raw) IN
         IF h = "" THEN ValidHosts(Tail(raw))
         ELSE IF IsValidUrl(h) THEN <<h>> \o ValidHosts(Tail(raw))
         ELSE ValidHosts(Tail(raw))

\* variant: an empty host is not skipped and fails the scheme/netloc test
RECURSIVE InvalidHostsNoSkip(_)
InvalidHostsNoSkip(raw) ==
    IF raw = <<>> THEN <<>>
    ELSE LET h == Head(raw) IN
         IF IsValidUrl(h) THEN InvalidHostsNoSkip(Tail(raw))
         ELSE <<h>> \o InvalidHostsNoSkip(Tail(raw))

\* variant: the loop stops at the first invalid host
RECURSIVE InvalidHostsFirst(_)
InvalidHostsFirst(raw) ==
    IF raw = <<>> THEN <<>>
    ELSE LET h == Head(raw) IN
         IF h = "" THEN InvalidHostsFirst(Tail(raw))
         ELSE IF IsValidUrl(h) THEN InvalidHostsFirst(Tail(raw))
         ELSE <<h>>

RECURSIVE InvalidHosts(_)
InvalidHosts(raw) ==
    IF raw = <<>> THEN <<>>
    ELSE LET h == Head(raw) IN
         IF h = "" THEN InvalidHosts(Tail(raw))
         ELSE IF IsValidUrl(h) THEN InvalidHosts(Tail(raw))
         ELSE <<h>> \o InvalidHosts(Tail(raw))

\* ------------------------------------------------------------------ Init
Init ==
    /\ args \in {a \in [hosts : UNION {[1..n -> RawTokens] : n \in 1..MaxHosts},
                        count : (0 - MinCount)..MaxCount] :
                   Cardinality({i \in 1..Len(a.hosts) : a.hosts[i] # ""}) * a.count
                      <= MaxProbes}
    /\ pc = "validate_count"
    /\ hosts = <<>>
    /\ session = "none"
    /\ tasks = <<>>
    /\ results = <<>>
    /\ stats = <<>>
    /\ foldIdx = 0
    /\ renderIdx = 0
    /\ stdout = <<>>
    /\ stderr = <<>>
    /\ exitCode = <<>>
    /\ validated = FALSE
    /\ now = 0

\* -------------------------------------------------------------- main()
\* variant: only negative counts are refused
CountRefusedNegative(count) == count < 0

\* if count < 1:
CountRefused(count) == count < 1

\* variant: the URLs are validated before the count
ValidateCountSecond ==
    /\ pc = "validate_count"
    /\ validated' = TRUE
    /\ LET raw == RawHosts(args.hosts)
           valid_hosts == ValidHosts(raw)
           invalid_hosts == InvalidHosts(raw)
       IN IF invalid_hosts # <<>>
          THEN /\ stderr' = stderr \o <<[kind |-> "invalid_urls", hosts |-> invalid_hosts],
                                         [kind |-> "hint", hosts |-> <<>>]>>
               /\ exitCode' = <<1>>
               /\ pc' = "exit"
               /\ UNCHANGED hosts
          ELSE IF valid_hosts = <<>>
          THEN /\ stderr' = Append(stderr, [kind |-> "no_valid_urls", hosts |-> <<>>])
               /\ exitCode' = <<1>>
               /\ pc' = "exit"
               /\ UNCHANGED hosts
          ELSE IF CountRefused(args.count)
          THEN /\ stderr' = Append(stderr, [kind |-> "bad_count", hosts |-> <<>>])
               /\ exitCode' = <<1>>
               /\ pc' = "exit"
               /\ UNCHANGED hosts
          ELSE /\ hosts' = valid_hosts
               /\ pc' = "announce"
               /\ UNCHANGED <<stderr, exitCode>>
    /\ UNCHANGED <<args, session, tasks, results, stats, foldIdx, renderIdx, stdout, now>>

\* validate_count(args.count)
ValidateCount ==
    /\ pc = "validate_count"
    /\ IF CountRefused(args.count)
       THEN /\ stderr' = Append(stderr, [kind |-> "bad_count", hosts |-> <<>>])
            /\ exitCode' = <<1>>
            /\ pc' = "exit"
       ELSE /\ pc' = "validate_urls"
            /\ UNCHANGED <<stderr, exitCode>>
    /\ UNCHANGED <<args, hosts, session, tasks, results, stats, foldIdx, renderIdx,
                   stdout, validated, now>>

\* raw_hosts = ...; hosts = validate_urls(raw_hosts)
ValidateUrls ==
    /\ pc = "validate_urls"
    /\ validated' = TRUE
    /\ LET raw == RawHosts(args.hosts)
           valid_hosts == ValidHosts(raw)
           invalid_hosts == InvalidHosts(raw)
       IN IF invalid_hosts # <<>>
          THEN /\ stderr' = stderr \o <<[kind |-> "invalid_urls", hosts |-> invalid_hosts],
                                         [kind |-> "hint", hosts |-> <<>>]>>
               /\ exitCode' = <<1>>
               /\ pc' = "exit"
               /\ UNCHANGED hosts
          ELSE IF valid_hosts = <<>>
          THEN /\ stderr' = Append(stderr, [kind |-> "no_valid_urls", hosts |-> <<>>])
               /\ exitCode' = <<1>>
               /\ pc' = "exit"
               /\ UNCHANGED hosts
          ELSE /\ hosts' = valid_hosts
               /\ pc' = "announce"
               /\ UNCHANGED <<stderr, exitCode>>
    /\ UNCHANGED <<args, session, tasks, results, stats, foldIdx, renderIdx, stdout, now>>

\* the two print() calls before the batch
Announce ==
    /\ pc = "announce"
    /\ stdout' = stdout \o <<[kind |-> "hosts", host |-> "", value |-> <<Len(hosts)>>],
                              [kind |-> "count", host |-> "", value |-> <<args.count>>]>>
    /\ pc' = "open_session"
    /\ UNCHANGED <<args, hosts, session, tasks, results, stats, foldIdx, renderIdx,
                   stderr, exitCode, validated, now>>

\* async with aiohttp.ClientSession() as session:
OpenSession ==
    /\ pc = "open_session"
    /\ session' = "open"
    /\ pc' = "create_tasks"
    /\ UNCHANGED <<args, hosts, tasks, results, stats, foldIdx, renderIdx,
                   stdout, stderr, exitCode, validated, now>>

\* the url of the k-th coroutine appended by the nested for loops
TaskUrl(hs, count, k) == hs[((k - 1) \div count) + 1]

\* variant: the inner loop over range(count) is missing
CreateTasksOncePerHost ==
    /\ pc = "create_tasks"
    /\ tasks' = [k \in 1..Len(hosts) |-> [NoTask EXCEPT !.url = hosts[k]]]
    /\ pc' = "gather_start"
    /\ UNCHANGED <<args, hosts, session, results, stats, foldIdx, renderIdx,
                   stdout, stderr, exitCode, validated, now>>

\* for host in hosts: for _ in range(count): tasks.append(ping_host(session, host))
CreateTasks ==
    /\ pc = "create_tasks"
    /\ tasks' = [k \in 1..(Len(hosts) * args.count) |->
                    [NoTask EXCEPT !.url = TaskUrl(hosts, args.count, k)]]
    /\ pc' = "gather_start"
    /\ UNCHANGED <<args, hosts, session, results, stats, foldIdx, renderIdx,
                   stdout, stderr, exitCode, validated, now>>

\* await asyncio.gather(*tasks): every coroutine is scheduled and runs up to
\* its session.get (start_time = time.monotonic()), so every GET is in flight
GatherStart ==
    /\ pc = "gather_start"
    /\ tasks' = [k \in 1..Len(tasks) |->
                    [tasks[k] EXCEPT !.state = "running", !.start = now,
                                     !.attempts = @ + 1]]
    /\ pc' = "gather"
    /\ UNCHANGED <<args, hosts, session, results, stats, foldIdx, renderIdx,
                   stdout, stderr, exitCode, validated, now>>

\* ---------------------------------------------------------- ping_host()
\* variant: the boundary status 400 taken for a success
ClassifyInclusive(status) == IF status <= 400 THEN "success" ELSE "failed"

\* if response.status < 400: 'success' else: 'failed'
Classify(status) == IF status < 400 THEN "success" ELSE "failed"

\* the coroutine returns (url, status, duration)
Returned(t, cause, httpStatus, result, d) ==
    [t EXCEPT !.state = "returned", !.cause = cause, !.httpStatus = httpStatus,
              !.returnedUrl = t.url, !.result = result, !.duration = d]

\* duration = time.monotonic() - start_time
Elapsed(t) == now - t.start

\* an exception leaves the coroutine: no handler matches it, or it is raised
\* inside a handler
Raised(t, cause) == [t EXCEPT !.state = "raised", !.cause = cause]

Running(k) ==
    /\ pc \in {"gather", "raised"}
    /\ k \in 1..Len(tasks)
    /\ tasks[k].state = "running"
    /\ now > tasks[k].start

\* async with session.get(...) as response: a response arrived
PingResponse(k) ==
    /\ Running(k)
    /\ \E st \in Statuses :
         tasks' = [tasks EXCEPT ![k] =
                     Returned(@, "response", st, Classify(st), Elapsed(@))]
    /\ UNCHANGED <<args, pc, hosts, session, results, stats, foldIdx, renderIdx,
                   stdout, stderr, exitCode, validated, now>>

\* except aiohttp.ClientError: print to stderr, return 'error';
\* the print itself may raise (closed or non-encodable stderr)
PingClientError(k) ==
    /\ Running(k)
    /\ \E printed \in BOOLEAN :
         IF printed
         THEN /\ stderr' = Append(stderr, [kind |-> "connect_error",
                                           hosts |-> <<tasks[k].url>>])
              /\ tasks' = [tasks EXCEPT ![k] =
                             Returned(@, "ClientError", 0, "error", Elapsed(@))]
         ELSE /\ tasks' = [tasks EXCEPT ![k] = Raised(@, "ClientError")]
              /\ UNCHANGED stderr
    /\ UNCHANGED <<args, pc, hosts, session, results, stats, foldIdx, renderIdx,
                   stdout, exitCode, validated, now>>

\* variant: the timeout handler returns 'error' without writing the diagnostic
PingTimeoutSilent(k) ==
    /\ Running(k)
    /\ now - tasks[k].start = MaxDur
    /\ tasks' = [tasks EXCEPT ![k] =
                   Returned(@, "TimeoutError", 0, "error", Elapsed(@))]
    /\ UNCHANGED <<args, pc, hosts, session, results, stats, foldIdx, renderIdx,
                   stdout, stderr, exitCode, validated, now>>

\* except asyncio.TimeoutError (timeout=10 has elapsed): print to stderr,
\* return 'error'
PingTimeout(k) ==
    /\ Running(k)
    /\ now - tasks[k].start = MaxDur
    /\ \E printed \in BOOLEAN :
         IF printed
         THEN /\ stderr' = Append(stderr, [kind |-> "timeout",
                                           hosts |-> <<tasks[k].url>>])
              /\ tasks' = [tasks EXCEPT ![k] =
                             Returned(@, "TimeoutError", 0, "error", Elapsed(@))]
         ELSE /\ tasks' = [tasks EXCEPT ![k] = Raised(@, "TimeoutError")]
              /\ UNCHANGED stderr
    /\ UNCHANGED <<args, pc, hosts, session, results, stats, foldIdx, renderIdx,
                   stdout, exitCode, validated, now>>

\* session.get raises an exception that is neither ClientError nor
\* TimeoutError: no except clause matches
PingOtherException(k) ==
    /\ Running(k)
    /\ tasks' = [tasks EXCEPT ![k] = Raised(@, "Exception")]
    /\ UNCHANGED <<args, pc, hosts, session, results, stats, foldIdx, renderIdx,
                   stdout, stderr, exitCode, validated, now>>

\* the monotonic clock advances while requests are in flight; none outlives
\* its timeout
Tick ==
    /\ pc \in {"gather", "raised"}
    /\ \E k \in 1..Len(tasks) : tasks[k].state = "running"
    /\ \A k \in 1..Len(tasks) :
         tasks[k].state = "running" => now - tasks[k].start < MaxDur
    /\ now' = now + 1
    /\ UNCHANGED <<args, pc, hosts, session, tasks, results, stats, foldIdx, renderIdx,
                   stdout, stderr, exitCode, validated>>

\* ------------------------------------------------------- asyncio.gather
\* variant: the join is over as soon as one awaitable is done
AnyReturned == \E k \in 1..Len(tasks) : tasks[k].state = "returned"

AllReturned == \A k \in 1..Len(tasks) : tasks[k].state = "returned"

SomeRaised == \E k \in 1..Len(tasks) : tasks[k].state = "raised"

\* variant: the results are taken as the awaitables complete (as_completed)
GatherResultsAsCompleted(ts) ==
    LET n == Len(ts)
        done(k) == ts[k].start + ts[k].duration
        order == CHOOSE p \in [1..n -> 1..n] :
                    \A i, j \in 1..n :
                       i < j => \/ done(p[i]) < done(p[j])
                                \/ done(p[i]) = done(p[j]) /\ p[i] < p[j]
    IN [k \in 1..n |-> [url |-> ts[order[k]].returnedUrl, status |-> ts[order[k]].result,
                        duration |-> ts[order[k]].duration]]

\* gather's result list: one tuple per awaitable, in the order of tasks
GatherResults(ts) ==
    [k \in 1..Len(ts) |-> [url |-> ts[k].returnedUrl, status |-> ts[k].result,
                           duration |-> ts[k].duration]]

\* results = await asyncio.gather(*tasks) returns; the async with block is left
GatherReturn ==
    /\ pc = "gather"
    /\ AllReturned
    /\ results' = GatherResults(tasks)
    /\ session' = "closed"
    /\ pc' = "fold"
    /\ UNCHANGED <<args, hosts, tasks, stats, foldIdx, renderIdx,
                   stdout, stderr, exitCode, validated, now>>

\* gather (return_exceptions=False) re-raises the first exception of a task in
\* main(); the async with block is left by the exception, the other tasks are
\* not cancelled by gather
GatherRaise ==
    /\ pc = "gather"
    /\ SomeRaised
    /\ session' = "closed"
    /\ pc' = "raised"
    /\ UNCHANGED <<args, hosts, tasks, results, stats, foldIdx, renderIdx,
                   stdout, stderr, exitCode, validated, now>>

\* asyncio.run(main()): main() raised; the tasks still pending are cancelled and
\* the process ends with the traceback
RunAborts ==
    /\ pc = "raised"
    /\ tasks' = [k \in 1..Len(tasks) |->
                   IF tasks[k].state = "running"
                   THEN [tasks[k] EXCEPT !.state = "cancelled"]
                   ELSE tasks[k]]
    /\ exitCode' = <<1>>
    /\ pc' = "crashed"
    /\ UNCHANGED <<args, hosts, session, results, stats, foldIdx, renderIdx,
                   stdout, stderr, validated, now>>

\* ------------------------------------------------------------- the fold
\* defaultdict(lambda: {"success": 0, "failed": 0, "error": 0, "time": []})
NewEntry(url) == [host |-> url, success |-> 0, failed |-> 0, error |-> 0, time |-> <<>>]

\* position of url among the keys of the dict, 0 when absent
RECURSIVE KeyIndex(_, _)
KeyIndex(st, url) ==
    IF st = <<>> THEN 0
    ELSE IF st[Len(st)].host = url /\ KeyIndex(SubSeq(st, 1, Len(st) - 1), url) = 0
         THEN Len(st)
         ELSE KeyIndex(SubSeq(st, 1, Len(st) - 1), url)

\* variant: the duration is recorded whatever the status
BumpAnyDuration(e, r) ==
    LET counted == CASE r.status = "success" -> [e EXCEPT !.success = @ + 1]
                     [] r.status = "failed" -> [e EXCEPT !.failed = @ + 1]
                     [] OTHER -> [e EXCEPT !.error = @ + 1]
    IN [counted EXCEPT !.time = Append(@, r.duration)]

\* stats[url][status] += 1; if status == "success": stats[url]["time"].append(duration)
Bump(e, r) ==
    LET counted == CASE r.status = "success" -> [e EXCEPT !.success = @ + 1]
                     [] r.status = "failed" -> [e EXCEPT !.failed = @ + 1]
                     [] OTHER -> [e EXCEPT !.error = @ + 1]
    IN IF r.status = "success"
       THEN [counted EXCEPT !.time = Append(@, r.duration)]
       ELSE counted

\* variant: a new key is put in front of the older ones
FoldOneNewestFirst(st, r) ==
    LET withKey == IF KeyIndex(st, r.url) = 0 THEN <<NewEntry(r.url)>> \o st ELSE st
        i == KeyIndex(withKey, r.url)
    IN [withKey EXCEPT ![i] = Bump(@, r)]

\* variant: a plain dict whose entry is assigned afresh at each result
FoldOneAssign(st, r) ==
    LET withKey == IF KeyIndex(st, r.url) = 0 THEN Append(st, NewEntry(r.url)) ELSE st
        i == KeyIndex(withKey, r.url)
    IN [withKey EXCEPT ![i] = Bump(NewEntry(r.url), r)]

\* one iteration of: for url, status, duration in results
FoldOne(st, r) ==
    LET withKey == IF KeyIndex(st, r.url) = 0 THEN Append(st, NewEntry(r.url)) ELSE st
        i == KeyIndex(withKey, r.url)
    IN [withKey EXCEPT ![i] = Bump(@, r)]

FoldStep ==
    /\ pc = "fold"
    /\ foldIdx < Len(results)
    /\ stats' = FoldOne(stats, results[foldIdx + 1])
    /\ foldIdx' = foldIdx + 1
    /\ pc' = IF foldIdx + 1 = Len(results) THEN "render" ELSE "fold"
    /\ UNCHANGED <<args, hosts, session, tasks, results, renderIdx,
                   stdout, stderr, exitCode, validated, now>>

\* ----------------------------------------------------------- the report
SepBase == 20

\* variant: the first duration is taken for the smallest
SeqFirst(q) == q[1]

RECURSIVE SeqMin(_)
SeqMin(q) ==
    IF Len(q) = 1 THEN q[1]
    ELSE LET m == SeqMin(Tail(q)) IN IF q[1] < m THEN q[1] ELSE m

RECURSIVE SeqMax(_)
SeqMax(q) ==
    IF Len(q) = 1 THEN q[1]
    ELSE LET m == SeqMax(Tail(q)) IN IF q[1] > m THEN q[1] ELSE m

RECURSIVE SeqSum(_)
SeqSum(q) == IF q = <<>> THEN 0 ELSE q[1] + SeqSum(Tail(q))

Line(kind, host, value) == [kind |-> kind, host |-> host, value |-> value]

\* variant: zeros are printed when there is no successful request
TimingLinesZero(e) ==
    IF e.time # <<>>
    THEN <<Line("min", e.host, <<SeqMin(e.time)>>),
           Line("max", e.host, <<SeqMax(e.time)>>),
           Line("avg", e.host, <<SeqSum(e.time), Len(e.time)>>)>>
    ELSE <<Line("min", e.host, <<0>>),
           Line("max", e.host, <<0>>),
           Line("avg", e.host, <<0, 1>>)>>

\* if data["time"]: min/max/avg lines, else the 'no successful requests' line
TimingLines(e) ==
    IF e.time # <<>>
    THEN <<Line("min", e.host, <<SeqMin(e.time)>>),
           Line("max", e.host, <<SeqMax(e.time)>>),
           Line("avg", e.host, <<SeqSum(e.time), Len(e.time)>>)>>
    ELSE <<Line("no_timing", e.host, <<>>)>>

\* the lines printed for one (host, data) of stats.items()
BlockLines(e) ==
    <<Line("title", e.host, <<>>),
      Line("host", e.host, <<>>),
      Line("success", e.host, <<e.success>>),
      Line("failed", e.host, <<e.failed>>),
      Line("error", e.host, <<e.error>>)>>
    \o TimingLines(e)
    \o <<Line("separator", e.host, <<SepBase + Len(e.host)>>)>>

RenderBlock ==
    /\ pc = "render"
    /\ renderIdx < Len(stats)
    /\ stdout' = stdout \o BlockLines(stats[renderIdx + 1])
    /\ renderIdx' = renderIdx + 1
    /\ IF renderIdx + 1 = Len(stats)
       THEN pc' = "done" /\ exitCode' = <<0>>
       ELSE pc' = "render" /\ UNCHANGED exitCode
    /\ UNCHANGED <<args, hosts, session, tasks, results, stats, foldIdx,
                   stderr, validated, now>>

\* ---------------------------------------------------------- specification
Probe(k) == PingResponse(k) \/ PingClientError(k) \/ PingTimeout(k)
            \/ PingOtherException(k)

Next == \/ ValidateCount \/ ValidateUrls \/ Announce \/ OpenSession
        \/ CreateTasks \/ GatherStart
        \/ \E k \in 1..MaxProbes : Probe(k)
        \/ Tick
        \/ GatherReturn \/ GatherRaise \/ RunAborts
        \/ FoldStep \/ RenderBlock

Spec == Init /\ [][Next]_vars

\* ================================================================ claims
FoldRan == pc \in {"render", "done"}

Total(e) == e.success + e.failed + e.error

Dispatched == 1..Len(tasks)

HasLine(kind, host) ==
    \E i \in 1..Len(stdout) : stdout[i].kind = kind /\ stdout[i].host = host

\* C1: for every validated host list (duplicates included) and every count >= 1,
\* once the fold has run every host entry of the report has
\* success + failed + error = count.
C1_CountsSumToCount ==
    FoldRan => \A i \in 1..Len(stats) : Total(stats[i]) = args.count

\* C2: ping_host always returns an outcome; no exception leaves it, however the
\* GET ends and whether or not the diagnostic line can be written.
C2_PingHostNeverRaises ==
    \A k \in Dispatched : tasks[k].state # "raised"

\* C3: full join: the fold and the rendering of host blocks do not begin while a
\* dispatched probe has no terminal outcome (success, failed or error).
C3_FullJoin ==
    (\/ pc \in {"fold", "render", "done"}
     \/ foldIdx > 0 \/ stats # <<>> \/ renderIdx > 0
     \/ \E i \in 1..Len(stdout) : stdout[i].kind \notin {"hosts", "count"})
    => /\ Len(tasks) = Len(hosts) * args.count
       /\ tasks # <<>>
       /\ \A k \in Dispatched :
            /\ tasks[k].state = "returned"
            /\ tasks[k].result \in {"success", "failed", "error"}

\* C3 witness: the fold is under way after the second probe finished before the
\* first one.
C3_Witness ==
    /\ pc = "fold" /\ foldIdx = 1 /\ Len(tasks) = 2
    /\ tasks[2].duration < tasks[1].duration

\* C4: a connection failure or a timeout never aborts the batch: when the run has
\* ended after probing and every GET that ended did so by a response, a connection
\* failure or a timeout, every probe has a terminal outcome and the report has a
\* block for every distinct validated host.
C4_BatchNeverAborted ==
    (/\ exitCode # <<>>
     /\ tasks # <<>>
     /\ \A k \in Dispatched : tasks[k].cause # "Exception")
    => /\ pc = "done"
       /\ \A k \in Dispatched : tasks[k].state = "returned"
       /\ \A i \in 1..Len(hosts) : HasLine("title", hosts[i])

\* what the claims call an invalid entry: no non-empty scheme or no non-empty
\* network location
LacksSchemeOrNetloc(h) ==
    LET p == Urlparse(h) IN ~p.ok \/ p.scheme = "" \/ p.netloc = ""

NonEmptyInvalid(h) == h # "" /\ LacksSchemeOrNetloc(h)

IsUrl(h) == ~LacksSchemeOrNetloc(h)

IsInvalidUrlsLine(m) == m.kind = "invalid_urls"

ChecksDone == pc \notin {"validate_count", "validate_urls"}

FailedBeforeProbing ==
    /\ pc = "exit" /\ exitCode = <<1>>
    /\ session = "none" /\ tasks = <<>>

\* C5 as stated: if any entry of the host list lacks a scheme or a network
\* location, the run ends with status 1 before the session is created, no probe
\* is issued and the invalid entries are reported in one diagnostic message,
\* never in several; a list with zero valid URLs fails likewise.
C5_AnyInvalidEntryFails ==
    LET raw == RawHosts(args.hosts)
        msgs == SelectSeq(stderr, IsInvalidUrlsLine)
    IN ChecksDone =>
       /\ SelectSeq(raw, LacksSchemeOrNetloc) # <<>> =>
            /\ FailedBeforeProbing
            /\ Len(msgs) <= 1
       /\ SelectSeq(raw, IsUrl) = <<>> => FailedBeforeProbing

\* C5 (amended): if any non-empty entry of the stripped host list lacks a scheme
\* or a network location (or does not parse), the run ends with status 1 before
\* the session is created and no probe is issued; once validate_urls has run, all
\* those entries are reported, in order, in exactly one diagnostic message. A
\* list with zero valid URLs fails likewise.
C5_NonEmptyInvalidEntryFails ==
    LET raw == RawHosts(args.hosts)
        bad == SelectSeq(raw, NonEmptyInvalid)
        msgs == SelectSeq(stderr, IsInvalidUrlsLine)
    IN ChecksDone =>
       /\ bad # <<>> =>
            /\ FailedBeforeProbing
            /\ validated => Len(msgs) = 1 /\ msgs[1].hosts = bad
       /\ SelectSeq(raw, IsUrl) = <<>> => FailedBeforeProbing
       /\ bad = <<>> => msgs = <<>>

\* C5 witness: a list with a valid and an invalid URL has been refused by
\* validate_urls.
C5_Witness ==
    /\ pc = "exit" /\ validated
    /\ \E i, j \in 1..Len(args.hosts) :
         /\ IsUrl(Strip(args.hosts[i]))
         /\ NonEmptyInvalid(Strip(args.hosts[j]))

\* C6: for every count < 1 the run ends with status 1 and one diagnostic before
\* URL validation, session creation or any probe.
C6_BadCountFailsFirst ==
    args.count < 1 =>
       /\ ~validated /\ hosts = <<>> /\ session = "none" /\ tasks = <<>>
       /\ pc \in {"validate_count", "exit"}
       /\ pc = "exit" => /\ exitCode = <<1>>
                         /\ Len(stderr) = 1 /\ stderr[1].kind = "bad_count"

\* C6 witness: a run with count 0 has ended.
C6_Witness == args.count = 0 /\ pc = "exit"

\* C7: the classification returned by ping_host is determined by how the request
\* ended: a response below 400 is 'success', a response of 400 or more is
\* 'failed', a connection failure or a timeout is 'error'; the returned URL is
\* the probed URL.
C7_Classification ==
    \A k \in Dispatched :
       tasks[k].state = "returned" =>
          /\ tasks[k].returnedUrl = tasks[k].url
          /\ tasks[k].url = hosts[((k - 1) \div args.count) + 1]
          /\ tasks[k].cause \in {"response", "ClientError", "TimeoutError"}
          /\ tasks[k].cause = "response" /\ tasks[k].httpStatus < 400
                => tasks[k].result = "success"
          /\ tasks[k].cause = "response" /\ tasks[k].httpStatus >= 400
                => tasks[k].result = "failed"
          /\ tasks[k].cause \in {"ClientError", "TimeoutError"}
                => tasks[k].result = "error"

\* C7 witness: one probe got a 400 response and another one timed out.
C7_Witness ==
    \E j, k \in Dispatched :
       /\ tasks[j].state = "returned" /\ tasks[j].httpStatus = 400
       /\ tasks[k].state = "returned" /\ tasks[k].cause = "TimeoutError"

\* C8: at every step of the fold and in the report, a host's duration list is as
\* long as its success count: it holds exactly the durations of the 'success'
\* results folded so far for that host.
C8_DurationsAreSuccesses ==
    \A i \in 1..Len(stats) :
       LET Mine(r) == r.url = stats[i].host /\ r.status = "success"
           folded == SelectSeq(SubSeq(results, 1, foldIdx), Mine)
       IN /\ Len(stats[i].time) = stats[i].success
          /\ stats[i].time = [n \in 1..Len(folded) |-> folded[n].duration]

\* C8 witness: the fold has met a success and a non-success of the same host.
C8_Witness ==
    \E i \in 1..Len(stats) :
       stats[i].success = 1 /\ stats[i].failed + stats[i].error = 1

\* C9: a host block carries the min/max/mean lines exactly when the host's
\* success count is positive; otherwise it carries the 'no timing statistics'
\* line and no timing value.
C9_TimingIffSuccess ==
    \A i \in 1..renderIdx :
       LET h == stats[i].host
           timed == HasLine("min", h) /\ HasLine("max", h) /\ HasLine("avg", h)
           anyTimed == HasLine("min", h) \/ HasLine("max", h) \/ HasLine("avg", h)
       IN /\ stats[i].success > 0 <=> timed
          /\ stats[i].success = 0 <=> HasLine("no_timing", h)
          /\ stats[i].success = 0 => ~anyTimed

\* C9 witness: the report has a block with timing lines and one without.
C9_Witness ==
    /\ pc = "done"
    /\ \E g, h \in {hosts[i] : i \in 1..Len(hosts)} :
         HasLine("min", g) /\ HasLine("no_timing", h)

CountOf(h, c) ==
    Cardinality({k \in Dispatched : tasks[k].url = h /\ tasks[k].result = c})

\* C10: the counts of the report are a function of the host list, the count and
\* the classification of each probe alone: whatever the completion order and the
\* durations, each probed host has one entry, whose counts are the numbers of its
\* probes of each classification.
C10_CountsDeterministic ==
    FoldRan =>
       \A k \in Dispatched :
          \E i \in 1..Len(stats) :
             /\ stats[i].host = tasks[k].url
             /\ \A j \in 1..Len(stats) : stats[j].host = tasks[k].url => j = i
             /\ stats[i].success = CountOf(tasks[k].url, "success")
             /\ stats[i].failed = CountOf(tasks[k].url, "failed")
             /\ stats[i].error = CountOf(tasks[k].url, "error")

\* C10 witness: two probes of one host were classified differently and the one
\* dispatched last finished first.
C10_Witness ==
    /\ FoldRan /\ Len(tasks) = 2
    /\ tasks[1].url = tasks[2].url
    /\ tasks[1].result # tasks[2].result
    /\ tasks[2].duration < tasks[1].duration

IsProbeLine(m) == m.kind \in {"connect_error", "timeout"}

ProbeLinesFor(h) ==
    Cardinality({i \in 1..Len(stderr) : IsProbeLine(stderr[i]) /\ stderr[i].hosts = <<h>>})

RECURSIVE SumErrors(_)
SumErrors(st) == IF st = <<>> THEN 0 ELSE st[1].error + SumErrors(Tail(st))

\* C11: one diagnostic line is written for each probe that ended in 'error' and
\* none for a probe that ended in 'success' or 'failed': per URL the number of
\* per-probe lines is the number of its probes that returned 'error' (a timeout
\* line for a timeout, a connection line for a connection failure), the returned
\* outcome of such a probe is (its URL, 'error', its elapsed time), and after the
\* fold the number of per-probe lines is the sum of the error counts.
C11_OneDiagnosticPerError ==
    /\ \A k \in Dispatched :
          LET h == tasks[k].url IN
          /\ ProbeLinesFor(h) =
                Cardinality({j \in Dispatched : tasks[j].url = h
                                /\ tasks[j].state = "returned"
                                /\ tasks[j].result = "error"})
          /\ Cardinality({i \in 1..Len(stderr) :
                             stderr[i].kind = "timeout" /\ stderr[i].hosts = <<h>>}) =
                Cardinality({j \in Dispatched : tasks[j].url = h
                                /\ tasks[j].state = "returned"
                                /\ tasks[j].cause = "TimeoutError"})
          /\ (tasks[k].state = "returned" /\ tasks[k].result = "error")
                => /\ tasks[k].returnedUrl = h
                   /\ tasks[k].cause \in {"ClientError", "TimeoutError"}
                   /\ tasks[k].duration \in 1..MaxDur
    /\ Len(SelectSeq(stderr, IsProbeLine)) =
          Cardinality({j \in Dispatched : tasks[j].state = "returned"
                          /\ tasks[j].result = "error"})
    /\ FoldRan => Len(SelectSeq(stderr, IsProbeLine)) = SumErrors(stats)

\* C11 witness: both probes of one host timed out, the fold has run and two
\* diagnostic lines were written.
C11_Witness ==
    /\ FoldRan /\ Len(stats) = 1 /\ stats[1].error = 2
    /\ Len(stderr) = 2 /\ stderr[1].kind = "timeout" /\ stderr[2].kind = "timeout"

TasksCreated ==
    pc \in {"gather_start", "gather", "raised", "crashed", "fold", "render", "done"}

C13_DurationsInCompletionOrder ==
    \A i \in 1..Len(stats) :
       \A m, n \in 1..Len(stats[i].time) :
          m < n => stats[i].time[m] <= stats[i].time[n]

\* C13 (amended): a host's duration list holds the durations of its successes in
\* dispatch order, the order of the awaitables given to gather, whatever the
\* order in which the probes completed.
C13_DurationsInDispatchOrder ==
    FoldRan =>
       \A i \in 1..Len(stats) :
          LET Mine(t) == t.url = stats[i].host /\ t.result = "success"
              mine == SelectSeq(tasks, Mine)
          IN stats[i].time = [n \in 1..Len(mine) |-> mine[n].duration]

\* C13 witness: two probes of one host succeeded, the second one first, and the
\* fold has run.
C13_Witness ==
    /\ FoldRan /\ Len(tasks) = 2
    /\ tasks[1].url = tasks[2].url
    /\ tasks[1].result = "success" /\ tasks[2].result = "success"
    /\ tasks[2].start + tasks[2].duration < tasks[1].start + tasks[1].duration

\* the elements of q in order of first occurrence, each once
RECURSIVE FirstOccurrences(_)
FirstOccurrences(q) ==
    IF q = <<>> THEN <<>>
    ELSE LET front == FirstOccurrences(SubSeq(q, 1, Len(q) - 1))
             last == q[Len(q)]
         IN IF \E i \in 1..Len(front) : front[i] = last THEN front
            ELSE Append(front, last)

IsTitleLine(m) == m.kind = "title"

\* C14: the host blocks of the report appear in the order of first occurrence of
\* each host among the collected outcomes, each distinct host once; that order is
\* the order of first occurrence in the validated host list, whatever the order
\* in which the probes completed.
C14_BlocksInFirstOccurrenceOrder ==
    LET titles == SelectSeq(stdout, IsTitleLine)
        blocks == [n \in 1..Len(titles) |-> titles[n].host]
        byOutcome == FirstOccurrences([k \in 1..Len(results) |-> results[k].url])
        byList == FirstOccurrences(hosts)
    IN /\ Len(blocks) = renderIdx
       /\ pc \in {"render", "done"} =>
            /\ byOutcome = byList
            /\ blocks = SubSeq(byOutcome, 1, renderIdx)
       /\ pc = "done" => blocks = byList
       /\ \A m, n \in 1..Len(blocks) : blocks[m] = blocks[n] => m = n

\* C14 witness: the report of two hosts is complete and the probe of the second
\* host finished before the probe of the first.
C14_Witness ==
    /\ pc = "done" /\ Len(tasks) = 2 /\ renderIdx = 2
    /\ tasks[1].url # tasks[2].url
    /\ tasks[2].start + tasks[2].duration < tasks[1].start + tasks[1].duration

LineValue(kind, host) ==
    stdout[CHOOSE i \in 1..Len(stdout) :
              stdout[i].kind = kind /\ stdout[i].host = host].value

Orderings(n) ==
    {p \in [1..n -> 1..n] : \A a, b \in 1..n : p[a] = p[b] => a = b}

\* C15: whenever timing statistics are reported for a host, min <= mean <= max
\* (min * n <= sum <= max * n), the three values are taken over that host's
\* non-empty duration list, the mean being sum / length, and they are the same
\* for every order of the durations in the list.
C15_MinMeanMax ==
    \A i \in 1..renderIdx :
       stats[i].time # <<>> =>
          LET h == stats[i].host
              t == stats[i].time
              n == Len(t)
              lo == LineValue("min", h)[1]
              hi == LineValue("max", h)[1]
              mean == LineValue("avg", h)
              elems == {t[m] : m \in 1..n}
          IN /\ mean[2] = n /\ n > 0
             /\ lo * n <= mean[1] /\ mean[1] <= hi * n
             /\ lo \in elems /\ hi \in elems
             /\ \A x \in elems : lo <= x /\ x <= hi
             /\ \A p \in Orderings(n) :
                   LET u == [m \in 1..n |-> t[p[m]]]
                   IN SeqMin(u) = lo /\ SeqMax(u) = hi /\ SeqSum(u) = mean[1]

\* C15 witness: a block reports the timing of two successes of different
\* durations, the longer one first in the list.
C15_Witness ==
    \E i \in 1..renderIdx :
       /\ Len(stats[i].time) = 2
       /\ stats[i].time[1] > stats[i].time[2]
       /\ HasLine("avg", stats[i].host)

\* C16: the shared session is closed only after every dispatched probe has
\* reached a terminal state: in no state is the session closed while a probe is
\* still in flight, also when a probe ends by an exception that gather
\* propagates.
C16_SessionClosedAfterProbes ==
    session = "closed" =>
       \A k \in Dispatched : tasks[k].state \notin {"created", "running"}

NotEmpty(h) == h # ""

IsValidationLine(m) == m.kind \in {"invalid_urls", "hint", "no_valid_urls"}

\* C17: validate_urls takes an empty entry for neither valid nor invalid: it is
\* skipped without a diagnostic, so a list whose non-empty entries are all valid
\* passes even with empty entries in it, and the list validate_urls returns is
\* the non-empty entries in their original order, duplicates kept.
C17_EmptyEntriesSkipped ==
    LET raw == RawHosts(args.hosts)
        nonEmpty == SelectSeq(raw, NotEmpty)
    IN /\ hosts # <<>> => hosts = nonEmpty
       /\ (/\ validated
           /\ nonEmpty # <<>>
           /\ \A i \in 1..Len(nonEmpty) : IsUrl(nonEmpty[i]))
          => /\ pc # "exit"
             /\ hosts = nonEmpty
             /\ SelectSeq(stderr, IsValidationLine) = <<>>
       /\ \A i \in 1..Len(stderr) :
             \A j \in 1..Len(stderr[i].hosts) : stderr[i].hosts[j] # ""

\* C17 witness: a list with an empty entry and a valid URL has passed
\* validate_urls.
C17_Witness ==
    /\ pc = "announce"
    /\ Len(hosts) = 1
    /\ \E i \in 1..Len(args.hosts) : Strip(args.hosts[i]) = ""

Kinds(q) == [i \in 1..Len(q) |-> q[i].kind]

\* C18: the configuration checks run in a fixed order, the count first and the
\* URLs second, and the first failing check ends the run: validate_urls is only
\* called for a count >= 1, and when count < 1 and the host list has invalid
\* URLs as well, only the count diagnostic is written.
C18_CountCheckedFirst ==
    /\ validated => args.count >= 1
    /\ (/\ args.count < 1
        /\ \E i \in 1..Len(args.hosts) : NonEmptyInvalid(Strip(args.hosts[i])))
       => /\ ~validated
          /\ SelectSeq(stderr, IsValidationLine) = <<>>
          /\ pc = "exit" => Kinds(stderr) = <<"bad_count">>
    /\ pc = "exit" =>
          /\ Kinds(stderr) \in {<<"bad_count">>, <<"invalid_urls", "hint">>,
                                <<"no_valid_urls">>}
          /\ Kinds(stderr) = <<"bad_count">> <=> args.count < 1

\* C18 witness: a run with count < 1 and an invalid URL in the list has ended.
C18_Witness ==
    /\ pc = "exit" /\ args.count < 1
    /\ \E i \in 1..Len(args.hosts) : NonEmptyInvalid(Strip(args.hosts[i]))
====
